---- MODULE Spec2Model ----
(***************************************************************************)
(* A model of the polling sources of fluxus-source-sui: SuiEventSource     *)
(* (src/src/event.rs), SuiObjectSource (src/src/object.rs),                *)
(* SuiTransactionSource (src/src/transaction.rs) and DemoSource            *)
(* (src/src/demo.rs), and the checkpoint-replay source EventSource that    *)
(* tests/basic.rs and examples/events_usage.rs use.  One behaviour follows *)
(* one source instance; `kind` says which struct the instance is.          *)
(* Every call of init, next and close                                      *)
(* is one step: the remote client is an opaque collaborator whose answer   *)
(* (failure, or a page of raw records) is chosen nondeterministically.     *)
(***************************************************************************)
EXTENDS Integers, Sequences, FiniteSets, TLC

\* ------------------------------------------------------------------ bounds
MaxBatch == 2        \* longest page the remote returns (max_events, max_objects, max_transactions)
MaxVersion == 2      \* object versions are 1..MaxVersion
MaxCounter == 12     \* DemoSource calls are followed until the counter reaches this

\* ------------------------------------------------------- program constants
DemoLimit == 10      \* demo.rs: `if self.counter > 10`

\* --------------------------------------------------------------- universes
Kinds == {"event", "object", "transaction", "demo", "checkpoint"}
SuiKinds == {"event", "object", "transaction"}

None == <<>>
Some(x) == <<x>>

Digests == {"d1", "d2", "d3"}
ObjectIds == {"o1", "o2"}
ValidAddress == "0xA"
InvalidAddress == "not-an-address"

\* Variant: the address is handed to the remote call without being parsed.
AddressParses_Always(a) == TRUE

\* SuiAddress::from_str(&self.target_address)
AddressParses(a) == a = ValidAddress

\* Raw events of the remote: an EventID (tx_digest, event_seq) and an optional timestamp.
RawEvents ==
    { [tx |-> "d1", seq |-> 0, timestamp_ms |-> Some(1)],
      [tx |-> "d2", seq |-> 0, timestamp_ms |-> Some(1)],
      [tx |-> "d2", seq |-> 1, timestamp_ms |-> Some(1)],
      [tx |-> "d3", seq |-> 0, timestamp_ms |-> Some(1)],
      [tx |-> "d3", seq |-> 0, timestamp_ms |-> None] }

\* The type the remote reports for an object (SuiObjectData.type_): o2 has none.
RemoteType(k) == IF k = "o1" THEN Some("0x2::coin::Coin") ELSE None

\* The owner the remote reports for an object: o2 is not owned by the queried address.
RemoteOwner(k) == IF k = "o1" THEN "0xA" ELSE "0xB"

\* A raw object response that carries data.
RawObject(k, v) ==
    [data |-> TRUE, id |-> k, version |-> v, type_ |-> RemoteType(k), owner |-> RemoteOwner(k)]

\* Raw object responses: `data` is absent, or holds an id, a version, an optional type
\* and an owner.
MissingData == [data |-> FALSE, id |-> "o1", version |-> 1, type_ |-> None, owner |-> ""]
RawObjects ==
    { RawObject(k, v) : k \in ObjectIds, v \in 1..MaxVersion } \cup {MissingData}

\* The body of a transaction block (SuiTransactionBlock): its kind name and its sender.
TransactionBody == [name |-> "ProgrammableTransaction", sender |-> "0xS"]

\* Raw transaction blocks: a digest, and an optional checkpoint number, timestamp and
\* body (`transaction` is None unless the query asked for the input).
RawTransactions ==
    { [digest |-> "d1", checkpoint |-> Some(1), timestamp_ms |-> Some(5),
       transaction |-> Some(TransactionBody)],
      [digest |-> "d2", checkpoint |-> Some(0), timestamp_ms |-> None,
       transaction |-> Some(TransactionBody)],
      [digest |-> "d3", checkpoint |-> None, timestamp_ms |-> Some(5),
       transaction |-> None] }

RECURSIVE SeqsUpTo(_, _)
SeqsUpTo(S, n) ==
    IF n = 0 THEN { <<>> }
    ELSE LET shorter == SeqsUpTo(S, n - 1)
         IN  shorter \cup { Append(s, x) : s \in { t \in shorter : Len(t) = n - 1 }, x \in S }

\* The pages the remote may return: at most MaxBatch records, no record listed twice.
EventPages ==
    { b \in SeqsUpTo(RawEvents, MaxBatch) :
        \A i, j \in 1..Len(b) : i < j => (b[i].tx # b[j].tx \/ b[i].seq # b[j].seq) }

ObjectPages ==
    { b \in SeqsUpTo(RawObjects, MaxBatch) :
        \A i, j \in 1..Len(b) : (i < j /\ b[i].data /\ b[j].data) => b[i].id # b[j].id }

TransactionPages ==
    { b \in SeqsUpTo(RawTransactions, MaxBatch) :
        \A i, j \in 1..Len(b) : i < j => b[i].digest # b[j].digest }

\* The records a checkpoint may contain, and the checkpoints the remote may return:
\* at most MaxBatch records in the checkpoint's own order, no record listed twice.
CheckpointRecords == {"r1", "r2", "r3"}
CheckpointPages ==
    { b \in SeqsUpTo(CheckpointRecords, MaxBatch) :
        \A i, j \in 1..Len(b) : i < j => b[i] # b[j] }

\* What the remote answers to one query: a failure, or a page.
Responses(pages) ==
    { [ok |-> FALSE, data |-> <<>>] } \cup { [ok |-> TRUE, data |-> b] : b \in pages }

Range(s) == { s[i] : i \in 1..Len(s) }

\* ------------------------------------------------------------------- state
VARIABLES
    kind,                        \* which source struct this instance is
    initialized,                 \* `initialized: bool`
    client,                      \* `client: Option<SuiClient>`: TRUE when Some
    last_processed_event_id,     \* SuiEventSource: Option<String>
    last_processed_versions,     \* SuiObjectSource: HashMap<String, u64>
    last_processed_digest,       \* SuiTransactionSource: Option<String>
    last_processed_checkpoint,   \* SuiTransactionSource: Option<u64>
    counter,                     \* DemoSource: u64
    queue,                       \* EventSource: the records of the fetched checkpoint, None before the fetch
    queue_index,                 \* EventSource: how many records of the queue were delivered
    descending_order,            \* query parameter (event, transaction)
    target_address,              \* query parameter (object)
    cursor,                      \* query parameter: pagination cursor
    last,                        \* the last call: what it was given, did and returned
    delivered                    \* identities of the records delivered so far

fields == << initialized, client, last_processed_event_id, last_processed_versions,
             last_processed_digest, last_processed_checkpoint, counter, queue, queue_index >>
params == << kind, descending_order, target_address, cursor >>
vars == << fields, params, last, delivered >>

\* The mutable fields of the instance, as one value.
Self ==
    [ initialized |-> initialized,
      client |-> client,
      last_processed_event_id |-> last_processed_event_id,
      last_processed_versions |-> last_processed_versions,
      last_processed_digest |-> last_processed_digest,
      last_processed_checkpoint |-> last_processed_checkpoint,
      counter |-> counter,
      queue |-> queue,
      queue_index |-> queue_index ]

\* The watermark part of a field record.
Watermark(s) ==
    [ last_processed_event_id |-> s.last_processed_event_id,
      last_processed_versions |-> s.last_processed_versions,
      last_processed_digest |-> s.last_processed_digest,
      last_processed_checkpoint |-> s.last_processed_checkpoint ]

Ready(s) == s.initialized /\ s.client

\* ----------------------------------------------------------------- results
OkUnit == [tag |-> "Ok", detail |-> "Unit"]       \* Ok(())
OkNone == [tag |-> "Ok", detail |-> "None"]       \* Ok(None)
OkSome == [tag |-> "Ok", detail |-> "Some"]       \* Ok(Some(Record::new(..)))
Err(msg) == [tag |-> "Err", detail |-> msg]       \* Err(StreamError::Runtime(msg))
Panic(msg) == [tag |-> "Panic", detail |-> msg]   \* the call unwinds
Aborted(at) == [tag |-> "Aborted", detail |-> at] \* the call's future is dropped at an await

\* What one call did: the fields after it, its result, the records handed to the
\* caller, and its effects on the outside (sleeps, client builds, remote queries).
Outcome(s, res, out, eff) == [st |-> s, res |-> res, out |-> out, eff |-> eff]

\* The variant of StreamError a result carries: every error of the crate is built with
\* StreamError::Runtime.
ErrorVariant(res) == IF res.tag = "Err" THEN "Runtime" ELSE "none"

Count(eff, e) == Cardinality({ i \in 1..Len(eff) : eff[i] = e })

\* ---------------------------------------------------------- init and close
\* Variant: init without its early return.
AlreadyInitialized_Never(s) == FALSE

\* The `initialized` early return of init.
AlreadyInitialized(s) == s.initialized

\* Variant: the flag is set before the client is built.
InitFailed_FlagSet(s) ==
    Outcome([s EXCEPT !.initialized = TRUE], Err("Failed to initialize Sui client"),
            <<>>, <<"build">>)

\* init with a client build that fails: `.map_err(..)?` returns before any field is set.
InitFailed(s) ==
    Outcome(s, Err("Failed to initialize Sui client"), <<>>, <<"build">>)

\* Variant: a successful init starts from an empty watermark.
InitSucceeded_ResetsWatermark(s) ==
    Outcome([s EXCEPT !.client = TRUE, !.initialized = TRUE,
                      !.last_processed_event_id = None,
                      !.last_processed_versions = << >>,
                      !.last_processed_digest = None,
                      !.last_processed_checkpoint = None],
            OkUnit, <<>>, <<"build">>)

\* init with a client build that succeeds.
InitSucceeded(s) ==
    Outcome([s EXCEPT !.client = TRUE, !.initialized = TRUE], OkUnit, <<>>, <<"build">>)

\* init of the three Sui sources; build_ok is the outcome of SuiClientBuilder::build.
SuiInitStep(s, build_ok) ==
    IF AlreadyInitialized(s) THEN Outcome(s, OkUnit, <<>>, <<>>)
    ELSE IF ~build_ok THEN InitFailed(s)
    ELSE InitSucceeded(s)

\* Variant: close reports an error on a source that is not initialized.
SuiCloseStep_FailsWhenClosed(s) ==
    IF s.initialized
    THEN Outcome([s EXCEPT !.initialized = FALSE, !.client = FALSE], OkUnit, <<>>, <<>>)
    ELSE Outcome(s, Err("not initialized"), <<>>, <<>>)

\* Variant: close clears the flag and keeps the client.
SuiCloseStep_KeepsClient(s) ==
    Outcome([s EXCEPT !.initialized = FALSE], OkUnit, <<>>, <<>>)

\* close of the three Sui sources.
SuiCloseStep(s) ==
    Outcome([s EXCEPT !.initialized = FALSE, !.client = FALSE], OkUnit, <<>>, <<>>)

\* Variant: init starts the counter again.
DemoInitStep_ResetsCounter(s) ==
    IF AlreadyInitialized(s) THEN Outcome(s, OkUnit, <<>>, <<>>)
    ELSE Outcome([s EXCEPT !.initialized = TRUE, !.counter = 0], OkUnit, <<>>, <<>>)

\* DemoSource::init and DemoSource::close: the flag only, no client.
DemoInitStep(s) ==
    IF AlreadyInitialized(s) THEN Outcome(s, OkUnit, <<>>, <<>>)
    ELSE Outcome([s EXCEPT !.initialized = TRUE], OkUnit, <<>>, <<>>)

DemoCloseStep(s) ==
    Outcome([s EXCEPT !.initialized = FALSE], OkUnit, <<>>, <<>>)

\* ------------------------------------------------------ next: common parts
\* Variant: next without its guard.
NotReady_Unguarded(s) == FALSE

\* The guard at the head of next of the three Sui sources.
NotReady(s) == ~s.initialized \/ ~s.client

\* next on a source that fails the guard: returns before the sleep.
NotInitialized(s, name) ==
    Outcome(s, Err(name \o " not initialized"), <<>>, <<>>)

\* `self.client.as_ref().ok_or_else(..)?` after the sleep.
ClientNotAvailable(s, name) ==
    Outcome(s, Err(name \o " client not available"), <<>>, <<"sleep">>)

\* Variant: a failed remote call is reported as "no data".
QueryFailed_Swallowed(s, what) ==
    Outcome(s, OkNone, <<>>, <<"sleep", "query">>)

\* Variant: a failed remote call is retried once before the error is returned.
QueryFailed_Retried(s, what) ==
    Outcome(s, Err("Failed to fetch " \o what), <<>>, <<"sleep", "query", "query">>)

\* The remote call failed: `.map_err(..)?` returns the error, nothing else is touched.
QueryFailed(s, what) ==
    Outcome(s, Err("Failed to fetch " \o what), <<>>, <<"sleep", "query">>)

\* Variant: "no data" is reported as an error.
NoNewData_AsError(s) == Outcome(s, Err("No new data"), <<>>, <<"sleep", "query">>)

\* Variant: the interval sleep follows the query when there is nothing to deliver.
NoNewData_SleepAfter(s) == Outcome(s, OkNone, <<>>, <<"query", "sleep">>)

\* Variant: an empty vector is handed over as a batch.
NoNewData_EmptyBatch(s) == Outcome(s, OkSome, <<>>, <<"sleep", "query">>)

\* A successful query whose outcome is Ok(None): the fields are those given.
NoNewData(s) == Outcome(s, OkNone, <<>>, <<"sleep", "query">>)

\* ------------------------------------------------------ SuiEventSource::next
\* `events.data.last()`
EventLatest(data) == data[Len(data)]

\* `latest_event.id.tx_digest.to_string()`
EventIdString(e) == e.tx

\* The ChainEvent built from a raw event (timestamp present).
ToChainEvent(e) ==
    [id |-> [tx |-> e.tx, seq |-> e.seq], timestamp |-> e.timestamp_ms[1]]

\* The `if let Some(last_id) ... last_id == &latest_event_id` test.
EventAlreadyProcessed(s, id) ==
    s.last_processed_event_id # None /\ s.last_processed_event_id[1] = id

EventNextStep(s, resp) ==
    IF NotReady(s) THEN NotInitialized(s, "SuiEventSource")
    ELSE IF ~s.client THEN ClientNotAvailable(s, "SuiEventSource")
    ELSE IF ~resp.ok THEN QueryFailed(s, "events")
    ELSE IF resp.data = <<>> THEN NoNewData(s)
    ELSE LET id == EventIdString(EventLatest(resp.data))
         IN  IF EventAlreadyProcessed(s, id) THEN NoNewData(s)
             ELSE LET s2 == [s EXCEPT !.last_processed_event_id = Some(id)]
                  IN  IF \E i \in 1..Len(resp.data) : resp.data[i].timestamp_ms = None
                      THEN Outcome(s2, Panic("Timestamp not available"), <<>>,
                                   <<"sleep", "query">>)
                      ELSE Outcome(s2, OkSome,
                                   [i \in 1..Len(resp.data) |-> ToChainEvent(resp.data[i])],
                                   <<"sleep", "query">>)

\* ----------------------------------------------------- SuiObjectSource::next
\* Variant: the version test is strict, so an equal version is not skipped.
VersionUnchanged_Strict(versions, id, version) ==
    id \in DOMAIN versions /\ versions[id] > version

\* Variant: only an equal version is skipped, so an older one is taken as new.
VersionUnchanged_OnlyEqual(versions, id, version) ==
    id \in DOMAIN versions /\ versions[id] = version

\* The version test of the loop: skip when the stored version is >= the fetched one.
VersionUnchanged(versions, id, version) ==
    id \in DOMAIN versions /\ versions[id] >= version

\* Variant: the map is rebuilt from the inserted entry alone.
Insert_Replace(versions, id, version) ==
    [k \in {id} |-> version]

\* `self.last_processed_versions.insert(object_id, current_version)`
Insert(versions, id, version) ==
    [k \in DOMAIN versions \cup {id} |-> IF k = id THEN version ELSE versions[k]]

\* Variant: the owner is read from the remote object.
ToChainObject_RemoteOwner(o, owner) ==
    [id |-> o.id,
     object_type |-> IF o.type_ = None THEN "Unknown" ELSE o.type_[1],
     owner |-> o.owner,
     version |-> o.version]

\* The ChainObject built from a raw object: the type defaults to "Unknown"
\* (`unwrap_or_else`), the owner is the configured address.
ToChainObject(o, owner) ==
    [id |-> o.id,
     object_type |-> IF o.type_ = None THEN "Unknown" ELSE o.type_[1],
     owner |-> owner,
     version |-> o.version]

\* Variant: the kept object is put in front of the vector.
Push_Front(v, x) == << x >> \o v

\* `chain_objects.push(chain_object)`
Push(v, x) == Append(v, x)

\* The loop over objects.data from element i on: the map, the objects kept so far,
\* and whether an element without data stopped the loop with an error.
RECURSIVE ObjectLoop(_, _, _, _, _)
ObjectLoop(versions, data, i, kept, owner) ==
    IF i > Len(data) THEN [versions |-> versions, kept |-> kept, failed |-> FALSE]
    ELSE IF ~data[i].data THEN [versions |-> versions, kept |-> kept, failed |-> TRUE]
    ELSE IF VersionUnchanged(versions, data[i].id, data[i].version)
         THEN ObjectLoop(versions, data, i + 1, kept, owner)
         ELSE ObjectLoop(Insert(versions, data[i].id, data[i].version), data, i + 1,
                         Push(kept, ToChainObject(data[i], owner)), owner)

ObjectNextStep(s, address, resp) ==
    IF NotReady(s) THEN NotInitialized(s, "SuiObjectSource")
    ELSE IF ~s.client THEN ClientNotAvailable(s, "SuiObjectSource")
    ELSE IF ~AddressParses(address)
         THEN Outcome(s, Err("Invalid target address"), <<>>, <<"sleep">>)
    ELSE IF ~resp.ok THEN QueryFailed(s, "objects")
    ELSE IF resp.data = <<>> THEN NoNewData(s)
    ELSE LET r == ObjectLoop(s.last_processed_versions, resp.data, 1, <<>>, address)
             s2 == [s EXCEPT !.last_processed_versions = r.versions]
         IN  IF r.failed
             THEN Outcome(s2, Err("Object data is missing"), <<>>, <<"sleep", "query">>)
             ELSE IF r.kept = <<>> THEN NoNewData(s2)
             ELSE Outcome(s2, OkSome, r.kept, <<"sleep", "query">>)

\* ------------------------------------------------ SuiTransactionSource::next
\* `transactions.data.first()`
TransactionLatest(data) == data[1]

\* Variant: the fallbacks are the type defaults (`unwrap_or_default`), an empty sender
\* where the block has no body.
TransactionToEvent_TypeDefaults(t) ==
    [transaction_digest |-> t.digest,
     transaction_type |-> IF t.transaction = None THEN "unknown" ELSE t.transaction[1].name,
     timestamp |-> IF t.timestamp_ms = None THEN 0 ELSE t.timestamp_ms[1],
     sender |-> IF t.transaction = None THEN "" ELSE t.transaction[1].sender,
     recipient |-> None,
     amount |-> None,
     metadata |-> IF t.transaction = None THEN "unknown" ELSE "TransactionBlockData"]

\* transaction_to_event: `unwrap_or(0)` for the timestamp, "unknown" for the type, the
\* sender and the metadata of a block without body, recipient and amount always None.
\* (SuiAddress::try_from on the 32 bytes of a SuiAddress does not fail.)
TransactionToEvent(t) ==
    [transaction_digest |-> t.digest,
     transaction_type |-> IF t.transaction = None THEN "unknown" ELSE t.transaction[1].name,
     timestamp |-> IF t.timestamp_ms = None THEN 0 ELSE t.timestamp_ms[1],
     sender |-> IF t.transaction = None THEN "unknown" ELSE t.transaction[1].sender,
     recipient |-> None,
     amount |-> None,
     metadata |-> IF t.transaction = None THEN "unknown" ELSE "TransactionBlockData"]

\* The `if let Some(last_digest) ... last_digest == &latest_digest` test.
TransactionAlreadyProcessed(s, digest) ==
    s.last_processed_digest # None /\ s.last_processed_digest[1] = digest

TransactionNextStep(s, resp) ==
    IF NotReady(s) THEN NotInitialized(s, "SuiTransactionSource")
    ELSE IF ~s.client THEN ClientNotAvailable(s, "SuiTransactionSource")
    ELSE IF ~resp.ok THEN QueryFailed(s, "transactions")
    ELSE IF resp.data = <<>> THEN NoNewData(s)
    ELSE LET latest == TransactionLatest(resp.data)
         IN  IF TransactionAlreadyProcessed(s, latest.digest) THEN NoNewData(s)
             ELSE Outcome([s EXCEPT !.last_processed_digest = Some(latest.digest),
                                    !.last_processed_checkpoint = latest.checkpoint],
                          OkSome, << TransactionToEvent(latest) >>, <<"sleep", "query">>)

\* ---------------------------------------------------------- DemoSource::next
\* generate_event: the event carries the counter before the increment.
GenerateEvent(s) ==
    [event |-> [id |-> s.counter, timestamp |-> s.counter],
     st |-> [s EXCEPT !.counter = s.counter + 1]]

\* Variant: the limit test is `>=`, so the call that brings the counter to the limit
\* returns None.
DemoNextStep_LimitInclusive(s) ==
    LET g == GenerateEvent(s)
    IN  IF g.st.counter >= DemoLimit
        THEN Outcome(g.st, OkNone, <<>>, <<"sleep">>)
        ELSE Outcome(g.st, OkSome, << g.event >>, <<"sleep">>)

DemoNextStep(s) ==
    LET g == GenerateEvent(s)
    IN  IF g.st.counter > DemoLimit
        THEN Outcome(g.st, OkNone, <<>>, <<"sleep">>)
        ELSE Outcome(g.st, OkSome, << g.event >>, <<"sleep">>)

\* ---------------------------------------------- EventSource (checkpoint replay)
\* init: as the other sources; a new initialization starts with no checkpoint fetched.
CheckpointInitStep(s, build_ok) ==
    IF AlreadyInitialized(s) THEN Outcome(s, OkUnit, <<>>, <<>>)
    ELSE IF ~build_ok THEN InitFailed(s)
    ELSE Outcome([s EXCEPT !.client = TRUE, !.initialized = TRUE,
                           !.queue = None, !.queue_index = 0],
                 OkUnit, <<>>, <<"build">>)

\* Variant: the cursor does not advance, so the same record is delivered again.
CheckpointDeliver_NoAdvance(s, eff) ==
    IF s.queue_index < Len(s.queue[1])
    THEN Outcome(s, OkSome, << s.queue[1][s.queue_index + 1] >>, eff)
    ELSE Outcome(s, OkNone, <<>>, eff)

\* Deliver the record under the cursor and advance it; "no data" once the queue is
\* exhausted.
CheckpointDeliver(s, eff) ==
    IF s.queue_index < Len(s.queue[1])
    THEN Outcome([s EXCEPT !.queue_index = s.queue_index + 1], OkSome,
                 << s.queue[1][s.queue_index + 1] >>, eff)
    ELSE Outcome(s, OkNone, <<>>, eff)

\* next: the first call after init fetches the checkpoint once and fills the queue;
\* every call delivers from the queue, with no remote call while the queue is loaded.
CheckpointNextStep(s, resp) ==
    IF NotReady(s) THEN NotInitialized(s, "EventSource")
    ELSE IF s.queue = None
         THEN IF ~resp.ok THEN QueryFailed(s, "checkpoint")
              ELSE CheckpointDeliver([s EXCEPT !.queue = Some(resp.data)],
                                     <<"sleep", "query">>)
    ELSE CheckpointDeliver(s, <<"sleep">>)

\* The answers the remote may give to a next of the checkpoint source: one only when
\* the call fetches.
CheckpointResponses(s) ==
    IF Ready(s) /\ s.queue = None THEN Responses(CheckpointPages)
    ELSE { [ok |-> FALSE, data |-> <<>>] }

\* Source::next of the Sui source of kind k.
SuiNextStep(k, s, address, resp) ==
    IF k = "event" THEN EventNextStep(s, resp)
    ELSE IF k = "object" THEN ObjectNextStep(s, address, resp)
    ELSE TransactionNextStep(s, resp)

\* The answers the remote may give to the query of the source of kind k.
SuiResponses(k) ==
    IF k = "event" THEN Responses(EventPages)
    ELSE IF k = "object" THEN Responses(ObjectPages)
    ELSE Responses(TransactionPages)

\* ------------------------------------------------------------ aborted calls
\* The awaits at which a next call can be dropped: the interval sleep and the remote
\* call.  A call that fails the guard returns before the first await; an object
\* source whose address does not parse returns between the two.
SuspensionPoints(k, s, address) ==
    IF k = "demo" THEN {"sleep"}
    ELSE IF NotReady(s) THEN {}
    ELSE IF k = "object" /\ ~AddressParses(address) THEN {"sleep"}
    ELSE {"sleep", "query"}

\* Variant: next clears its watermark before it polls and refills it afterwards.
NextAbortedStep_Cleared(s, at) ==
    Outcome([s EXCEPT !.last_processed_event_id = None,
                      !.last_processed_versions = << >>,
                      !.last_processed_digest = None,
                      !.last_processed_checkpoint = None],
            Aborted(at), <<>>,
            IF at = "sleep" THEN <<"sleep">> ELSE <<"sleep", "query">>)

\* A next call dropped at the await `at`: no field is assigned before either await,
\* so the fields are those the call began with.
NextAbortedStep(s, at) ==
    Outcome(s, Aborted(at), <<>>,
            IF at = "sleep" THEN <<"sleep">> ELSE <<"sleep", "query">>)

\* ------------------------------------------------------------ the machine
NoResponse == [ok |-> FALSE, data |-> <<>>]

\* The identity of a record handed to the caller.
Identity(k, r) ==
    IF k = "event" THEN r.id
    ELSE IF k = "object" THEN [id |-> r.id, version |-> r.version]
    ELSE IF k = "transaction" THEN r.transaction_digest
    ELSE IF k = "checkpoint" THEN r
    ELSE r.id

\* Variant: a delivered page moves the pagination cursor.
Call_AdvancesCursor(op, build_ok, resp, o) ==
    /\ initialized' = o.st.initialized
    /\ client' = o.st.client
    /\ last_processed_event_id' = o.st.last_processed_event_id
    /\ last_processed_versions' = o.st.last_processed_versions
    /\ last_processed_digest' = o.st.last_processed_digest
    /\ last_processed_checkpoint' = o.st.last_processed_checkpoint
    /\ counter' = o.st.counter
    /\ queue' = o.st.queue
    /\ queue_index' = o.st.queue_index
    /\ last' = [ op |-> op, build_ok |-> build_ok, resp |-> resp, res |-> o.res,
                 out |-> o.out, eff |-> o.eff, pre |-> Self, pre_delivered |-> delivered ]
    /\ delivered' = delivered \cup { Identity(kind, r) : r \in Range(o.out) }
    /\ cursor' = IF o.res = OkSome THEN Some(Len(resp.data)) ELSE cursor
    /\ UNCHANGED << kind, descending_order, target_address >>

\* One call of `op` with outcome o: the fields become o.st, and the call is recorded.
Call(op, build_ok, resp, o) ==
    /\ initialized' = o.st.initialized
    /\ client' = o.st.client
    /\ last_processed_event_id' = o.st.last_processed_event_id
    /\ last_processed_versions' = o.st.last_processed_versions
    /\ last_processed_digest' = o.st.last_processed_digest
    /\ last_processed_checkpoint' = o.st.last_processed_checkpoint
    /\ counter' = o.st.counter
    /\ queue' = o.st.queue
    /\ queue_index' = o.st.queue_index
    /\ last' = [ op |-> op, build_ok |-> build_ok, resp |-> resp, res |-> o.res,
                 out |-> o.out, eff |-> o.eff, pre |-> Self, pre_delivered |-> delivered ]
    /\ delivered' = delivered \cup { Identity(kind, r) : r \in Range(o.out) }
    /\ UNCHANGED params

Init ==
    /\ kind \in Kinds
    /\ initialized = FALSE
    /\ client = FALSE
    /\ last_processed_event_id = None
    /\ last_processed_versions = << >>
    /\ last_processed_digest = None
    /\ last_processed_checkpoint = None
    /\ counter = 0
    /\ queue = None
    /\ queue_index = 0
    /\ descending_order \in (IF kind = "transaction" THEN BOOLEAN ELSE {TRUE})
    /\ target_address \in (IF kind = "object" THEN {ValidAddress, InvalidAddress} ELSE {""})
    /\ cursor = None
    /\ last = [ op |-> "new", build_ok |-> TRUE, resp |-> NoResponse, res |-> OkUnit,
                out |-> <<>>, eff |-> <<>>, pre |-> Self, pre_delivered |-> {} ]
    /\ delivered = {}

EventInit ==
    /\ kind = "event"
    /\ \E build_ok \in BOOLEAN : Call("init", build_ok, NoResponse, SuiInitStep(Self, build_ok))

EventNext ==
    /\ kind = "event"
    /\ \E resp \in SuiResponses("event") : Call("next", TRUE, resp, EventNextStep(Self, resp))

EventNextAborted ==
    /\ kind = "event"
    /\ \E at \in SuspensionPoints(kind, Self, target_address) :
         Call("next_aborted", TRUE, NoResponse, NextAbortedStep(Self, at))

EventClose ==
    /\ kind = "event"
    /\ Call("close", TRUE, NoResponse, SuiCloseStep(Self))

ObjectInit ==
    /\ kind = "object"
    /\ \E build_ok \in BOOLEAN : Call("init", build_ok, NoResponse, SuiInitStep(Self, build_ok))

ObjectNext ==
    /\ kind = "object"
    /\ \E resp \in SuiResponses("object") :
         Call("next", TRUE, resp, ObjectNextStep(Self, target_address, resp))

ObjectNextAborted ==
    /\ kind = "object"
    /\ \E at \in SuspensionPoints(kind, Self, target_address) :
         Call("next_aborted", TRUE, NoResponse, NextAbortedStep(Self, at))

ObjectClose ==
    /\ kind = "object"
    /\ Call("close", TRUE, NoResponse, SuiCloseStep(Self))

TransactionInit ==
    /\ kind = "transaction"
    /\ \E build_ok \in BOOLEAN : Call("init", build_ok, NoResponse, SuiInitStep(Self, build_ok))

TransactionNext ==
    /\ kind = "transaction"
    /\ \E resp \in SuiResponses("transaction") :
         Call("next", TRUE, resp, TransactionNextStep(Self, resp))

TransactionNextAborted ==
    /\ kind = "transaction"
    /\ \E at \in SuspensionPoints(kind, Self, target_address) :
         Call("next_aborted", TRUE, NoResponse, NextAbortedStep(Self, at))

TransactionClose ==
    /\ kind = "transaction"
    /\ Call("close", TRUE, NoResponse, SuiCloseStep(Self))

DemoInit ==
    /\ kind = "demo"
    /\ Call("init", TRUE, NoResponse, DemoInitStep(Self))

DemoNext ==
    /\ kind = "demo"
    /\ counter < MaxCounter
    /\ Call("next", TRUE, NoResponse, DemoNextStep(Self))

DemoNextAborted ==
    /\ kind = "demo"
    /\ \E at \in SuspensionPoints(kind, Self, target_address) :
         Call("next_aborted", TRUE, NoResponse, NextAbortedStep(Self, at))

DemoClose ==
    /\ kind = "demo"
    /\ Call("close", TRUE, NoResponse, DemoCloseStep(Self))

CheckpointInit ==
    /\ kind = "checkpoint"
    /\ \E build_ok \in BOOLEAN :
         Call("init", build_ok, NoResponse, CheckpointInitStep(Self, build_ok))

CheckpointNext ==
    /\ kind = "checkpoint"
    /\ \E resp \in CheckpointResponses(Self) :
         Call("next", TRUE, resp, CheckpointNextStep(Self, resp))

CheckpointClose ==
    /\ kind = "checkpoint"
    /\ Call("close", TRUE, NoResponse, SuiCloseStep(Self))

Next ==
    \/ EventInit \/ EventNext \/ EventNextAborted \/ EventClose
    \/ ObjectInit \/ ObjectNext \/ ObjectNextAborted \/ ObjectClose
    \/ TransactionInit \/ TransactionNext \/ TransactionNextAborted \/ TransactionClose
    \/ DemoInit \/ DemoNext \/ DemoNextAborted \/ DemoClose
    \/ CheckpointInit \/ CheckpointNext \/ CheckpointClose

Spec == Init /\ [][Next]_vars

\* ================================================================== claims
\* The last call was next on a Sui source that was Ready and got a non-empty page.
FetchedPage ==
    /\ kind \in SuiKinds
    /\ last.op = "next"
    /\ Ready(last.pre)
    /\ Count(last.eff, "query") > 0
    /\ last.resp.ok
    /\ last.resp.data # <<>>

\* The identities of the records the last call handed to the caller.
LastOut == { Identity(kind, r) : r \in Range(last.out) }

\* The element a page declares the latest: the first when the query is descending,
\* the last when it is ascending.
DeclaredLatest(data, descending) ==
    IF descending THEN data[1] ELSE data[Len(data)]

\* The highest version of object k among the records in set d.
MaxDelivered(d, k) ==
    CHOOSE v \in { r.version : r \in { x \in d : x.id = k } } :
        \A r \in { x \in d : x.id = k } : r.version <= v

\* C1: in SuiObjectSource, once object K has been delivered at version V (V the
\* highest version delivered so far), an element (K, V') of a later page of a poll
\* that returns without error is dropped when V' <= V, and is delivered and becomes
\* the stored version of K when V' > V.
C1_VersionFilter ==
    (kind = "object" /\ FetchedPage /\ last.res.tag = "Ok") =>
        \A i \in 1..Len(last.resp.data) :
            LET o == last.resp.data[i]
                prior == { x \in last.pre_delivered : x.id = o.id }
            IN  (o.data /\ prior # {}) =>
                    IF o.version <= MaxDelivered(last.pre_delivered, o.id)
                    THEN [id |-> o.id, version |-> o.version] \notin LastOut
                    ELSE /\ [id |-> o.id, version |-> o.version] \in LastOut
                         /\ o.id \in DOMAIN last_processed_versions
                         /\ last_processed_versions[o.id] = o.version

\* C2: a record that a next of a Sui source has delivered is not delivered again by
\* a later next of the same instance.
C2_NeverDeliveredAgain ==
    (kind \in SuiKinds /\ last.op = "next") =>
        \A r \in LastOut : r \notin last.pre_delivered

\* C3: a next that returns an error leaves the watermark (last event id, last digest
\* and checkpoint, version map) as it was before the call.
C3_ErrorKeepsWatermark ==
    (kind \in SuiKinds /\ last.op = "next" /\ last.res.tag = "Err") =>
        Watermark(Self) = Watermark(last.pre)

\* The name a source gives itself in its messages.
SourceName ==
    IF kind = "event" THEN "SuiEventSource"
    ELSE IF kind = "object" THEN "SuiObjectSource"
    ELSE "SuiTransactionSource"

\* C4: next on a Sui source that is not Ready returns the not-initialized error,
\* without a sleep, without a remote query, and changes no field.
C4_NextNotReady ==
    (kind \in SuiKinds /\ last.op = "next" /\ ~Ready(last.pre)) =>
        /\ last.res = Err(SourceName \o " not initialized")
        /\ last.eff = <<>>
        /\ last.out = <<>>
        /\ Self = last.pre

\* C4 witness: next after a close that followed a delivery.
C4_Witness ==
    /\ kind \in SuiKinds
    /\ last.op = "next"
    /\ ~Ready(last.pre)
    /\ delivered # {}
    /\ last.res.tag = "Err"

\* C5: DemoSource.next on an uninitialized source reports an error, produces no
\* record and leaves the counter alone.
C5_DemoNextUninitialized ==
    (kind = "demo" /\ last.op = "next" /\ ~last.pre.initialized) =>
        /\ last.res.tag = "Err"
        /\ last.out = <<>>
        /\ counter = last.pre.counter

\* C6: an init whose client build fails returns an error and leaves the source
\* uninitialized (flag false, no client, watermark untouched), so that an init from
\* that state whose build succeeds returns Ok and makes the source Ready; and every
\* init of an uninitialized source whose build succeeds does so.
C6_InitFailure ==
    /\ (kind \in SuiKinds /\ last.op = "init" /\ ~last.pre.initialized /\ ~last.build_ok) =>
            /\ last.res.tag = "Err"
            /\ ~initialized
            /\ ~client
            /\ Watermark(Self) = Watermark(last.pre)
            /\ LET retry == SuiInitStep(Self, TRUE)
               IN  /\ retry.res = OkUnit
                   /\ Ready(retry.st)
                   /\ Watermark(retry.st) = Watermark(Self)
    /\ (kind \in SuiKinds /\ last.op = "init" /\ ~last.pre.initialized /\ last.build_ok) =>
            /\ last.res = OkUnit
            /\ Ready(Self)
            /\ Watermark(Self) = Watermark(last.pre)

\* C6 witness: a failed init on a source that has delivered before (so the
\* watermark it leaves alone is not the empty one).
C6_Witness ==
    /\ kind \in SuiKinds
    /\ last.op = "init"
    /\ ~last.build_ok
    /\ last.res.tag = "Err"
    /\ ~initialized
    /\ delivered # {}

\* The last call was a next whose remote query failed.
RemoteQueryFailed ==
    /\ kind \in SuiKinds
    /\ last.op = "next"
    /\ Ready(last.pre)
    /\ Count(last.eff, "query") > 0
    /\ ~last.resp.ok

\* C7: on a remote query failure next returns an error, the source stays Ready with
\* client and watermark unchanged, and the following next issues a query of its own.
C7_QueryFailure ==
    RemoteQueryFailed =>
        /\ last.res.tag = "Err"
        /\ Ready(Self)
        /\ Self = last.pre
        /\ \A resp \in SuiResponses(kind) :
               Count(SuiNextStep(kind, Self, target_address, resp).eff, "query") = 1

\* C7 witness: a failed query on a source that holds a watermark.
C7_Witness ==
    /\ RemoteQueryFailed
    /\ last.res.tag = "Err"
    /\ delivered # {}

\* C8 as stated: every next on a Ready Sui source issues exactly one remote query.
C8_ExactlyOneQuery ==
    (kind \in SuiKinds /\ last.op = "next" /\ Ready(last.pre)) =>
        Count(last.eff, "query") = 1

\* C8 amended: every next on a Ready Sui source issues exactly one remote query,
\* except on a SuiObjectSource whose target address does not parse, where it
\* issues none.
C8_OneQueryUnlessBadAddress ==
    (kind \in SuiKinds /\ last.op = "next" /\ Ready(last.pre)) =>
        Count(last.eff, "query") =
            (IF kind = "object" /\ target_address = InvalidAddress THEN 0 ELSE 1)

\* C8 witness: a Ready next on an object source whose address does not parse.
C8_Witness ==
    /\ kind = "object"
    /\ target_address = InvalidAddress
    /\ last.op = "next"
    /\ Ready(last.pre)
    /\ Count(last.eff, "query") = 0

\* C9: with no stored digest, the first poll of SuiTransactionSource that fetches a
\* non-empty page delivers exactly the declared latest element and stores its digest.
C9_FirstPollDeliversLatest ==
    (kind = "transaction" /\ FetchedPage /\ last.pre.last_processed_digest = None) =>
        LET latest == DeclaredLatest(last.resp.data, descending_order)
        IN  /\ last.res = OkSome
            /\ LastOut = { latest.digest }
            /\ Len(last.out) = 1
            /\ last_processed_digest = Some(latest.digest)

\* The identifier the watermark of the event or transaction source is compared with.
LatestIdentifier(e) == IF kind = "event" THEN e.tx ELSE e.digest

\* The stored last-processed identifier of a field record.
StoredIdentifier(s) ==
    IF kind = "event" THEN s.last_processed_event_id ELSE s.last_processed_digest

\* C10: in the event and transaction sources, a poll that fetches a page whose
\* declared-latest identifier equals the stored identifier returns "no data" and
\* leaves the watermark unchanged.
C10_SameLatestNoData ==
    (/\ kind \in {"event", "transaction"}
     /\ FetchedPage
     /\ StoredIdentifier(last.pre) =
            Some(LatestIdentifier(DeclaredLatest(last.resp.data, descending_order)))) =>
        /\ last.res = OkNone
        /\ Watermark(Self) = Watermark(last.pre)

\* Every event of the page of the last call carries a timestamp.
AllTimestamped == \A i \in 1..Len(last.resp.data) : last.resp.data[i].timestamp_ms # None

\* C11: in the event source a poll delivers exactly when the latest identifier of
\* its page differs from the stored last-seen identifier (pages whose events all
\* carry a timestamp).
C11_DeliversIffLatestDiffers ==
    (kind = "event" /\ FetchedPage /\ AllTimestamped) =>
        ( last.res = OkSome
          <=> last.pre.last_processed_event_id #
                  Some(LatestIdentifier(DeclaredLatest(last.resp.data, descending_order))) )

\* The stored version of object k in a field record, None when k is not stored.
StoredVersion(s, k) ==
    IF k \in DOMAIN s.last_processed_versions
    THEN Some(s.last_processed_versions[k]) ELSE None

\* The keys of the elements of a page that carry data.
PageKeys(data) == { data[i].id : i \in { j \in 1..Len(data) : data[j].data } }

\* C12: in SuiObjectSource a poll leaves the stored version of every key that has no
\* element in its page unchanged, and in a poll that returns without error an element
\* (K, V) is delivered exactly when K has no stored version or a stored version
\* below V: the test reads the entry of K alone.
C12_KeysIndependent ==
    (kind = "object" /\ FetchedPage) =>
        /\ \A k \in ObjectIds :
               k \notin PageKeys(last.resp.data) => StoredVersion(Self, k) = StoredVersion(last.pre, k)
        /\ last.res.tag = "Ok" =>
               \A i \in 1..Len(last.resp.data) :
                   LET o == last.resp.data[i]
                   IN  ( [id |-> o.id, version |-> o.version] \in LastOut
                         <=> ( StoredVersion(last.pre, o.id) = None
                               \/ StoredVersion(last.pre, o.id)[1] < o.version ) )

\* C12 witness: a poll delivers an element of o1 while o2 is stored and absent from
\* the page.
C12_Witness ==
    /\ kind = "object"
    /\ FetchedPage
    /\ last.res = OkSome
    /\ "o2" \in DOMAIN last.pre.last_processed_versions
    /\ PageKeys(last.resp.data) = {"o1"}
    /\ "o2" \in DOMAIN last_processed_versions

\* Every element of the page of the last call carries data and is at or below the
\* version stored for its key before the call.
AllStale ==
    \A i \in 1..Len(last.resp.data) :
        LET o == last.resp.data[i]
        IN  /\ o.data
            /\ StoredVersion(last.pre, o.id) # None
            /\ StoredVersion(last.pre, o.id)[1] >= o.version

\* C13: in SuiObjectSource a non-empty page of which every element is dropped by
\* the version filter yields Ok(None), with nothing delivered and no field changed;
\* and a page of the single element (K, V) is delivered when K is not stored or
\* stored below V, and yields Ok(None) otherwise.
C13_AllDroppedNoData ==
    (kind = "object" /\ FetchedPage) =>
        /\ AllStale => (last.res = OkNone /\ last.out = <<>> /\ Self = last.pre)
        /\ (Len(last.resp.data) = 1 /\ last.resp.data[1].data) =>
               LET o == last.resp.data[1]
               IN  IF StoredVersion(last.pre, o.id) = None
                      \/ StoredVersion(last.pre, o.id)[1] < o.version
                   THEN last.res = OkSome /\ LastOut = { [id |-> o.id, version |-> o.version] }
                   ELSE last.res = OkNone /\ last.out = <<>>

\* C13 witness: (o1, v1) is fetched again after it was delivered.
C13_Witness ==
    /\ kind = "object"
    /\ FetchedPage
    /\ AllStale
    /\ last.resp.data = << RawObject("o1", 1) >>
    /\ [id |-> "o1", version |-> 1] \in last.pre_delivered
    /\ last.res = OkNone

\* The last call was next on a Ready Sui source whose query returned an empty page.
EmptyResult ==
    /\ kind \in SuiKinds
    /\ last.op = "next"
    /\ Ready(last.pre)
    /\ Count(last.eff, "query") > 0
    /\ last.resp.ok
    /\ last.resp.data = <<>>

\* C14: a query that succeeds with an empty result makes next return Ok(None), which
\* is no error, and leaves the watermark and the Ready state as they were.
C14_EmptyResult ==
    EmptyResult =>
        /\ last.res = OkNone
        /\ last.res.tag # "Err"
        /\ Ready(Self)
        /\ Self = last.pre

\* C14 witness: an empty result on a source that holds a watermark.
C14_Witness ==
    /\ EmptyResult
    /\ delivered # {}
    /\ last.res = OkNone

\* C15: a next call aborted at its sleep or while awaiting the remote response
\* leaves the watermark (and every other field) as it was before the call.
C15_AbortKeepsWatermark ==
    last.op = "next_aborted" =>
        /\ Watermark(Self) = Watermark(last.pre)
        /\ Self = last.pre

\* C15 witness: a next of a source that holds a watermark is aborted while the
\* remote call is awaited.
C15_Witness ==
    /\ kind \in SuiKinds
    /\ last.op = "next_aborted"
    /\ last.res = Aborted("query")
    /\ delivered # {}
    /\ Watermark(Self) = Watermark(last.pre)

\* C16: when a fetched event has no timestamp, SuiEventSource.next returns an error
\* value (or "no data" when the page is not mapped at all); the call does not unwind.
C16_MissingTimestampIsError ==
    (kind = "event" /\ FetchedPage /\ ~AllTimestamped) =>
        (last.res.tag = "Err" \/ last.res = OkNone)

\* The source was ready for use before the last call: the flag, and for the Sui
\* sources the client.
PreReady == IF kind = "demo" THEN last.pre.initialized ELSE Ready(last.pre)

\* C17: init on a source that is already Ready returns Ok(()) without building a
\* client and without changing any field.
C17_InitWhenReady ==
    (last.op = "init" /\ PreReady) =>
        /\ last.res = OkUnit
        /\ last.eff = <<>>
        /\ Self = last.pre

\* C17 witness: init on a Ready Sui source that holds a watermark.
C17_Witness ==
    /\ kind \in SuiKinds
    /\ last.op = "init"
    /\ Ready(last.pre)
    /\ delivered # {}
    /\ last.res = OkUnit

\* C18: close returns Ok(()) from any state and leaves the source uninitialized with
\* no client; a close of a source already closed changes nothing, and a second close
\* from the state reached gives the same state and the same result.
C18_CloseIdempotent ==
    (kind \in SuiKinds /\ last.op = "close") =>
        /\ last.res = OkUnit
        /\ ~initialized
        /\ ~client
        /\ Watermark(Self) = Watermark(last.pre)
        /\ (~last.pre.initialized /\ ~last.pre.client) => Self = last.pre
        /\ LET again == SuiCloseStep(Self)
           IN  again.st = Self /\ again.res = last.res

\* C18 witness: close on a source that is already closed and holds a watermark.
C18_Witness ==
    /\ kind \in SuiKinds
    /\ last.op = "close"
    /\ ~last.pre.initialized
    /\ ~last.pre.client
    /\ delivered # {}
    /\ last.res = OkUnit

\* C19: in SuiObjectSource no call removes a key from the version map or lowers the
\* version stored for a key.
C19_VersionsMonotone ==
    kind = "object" =>
        \A k \in DOMAIN last.pre.last_processed_versions :
            /\ k \in DOMAIN last_processed_versions
            /\ last_processed_versions[k] >= last.pre.last_processed_versions[k]

\* C19 witness: a poll fetches an older version of a stored key.
C19_Witness ==
    /\ kind = "object"
    /\ FetchedPage
    /\ \E i \in 1..Len(last.resp.data) :
           LET o == last.resp.data[i]
           IN  /\ o.data
               /\ StoredVersion(last.pre, o.id) # None
               /\ StoredVersion(last.pre, o.id)[1] > o.version
               /\ StoredVersion(Self, o.id) = StoredVersion(last.pre, o.id)

\* C20: every next on a Ready source sleeps the interval exactly once, as the first
\* thing it does, so before any remote query of that call.
C20_SleepOnceBeforeQuery ==
    (last.op = "next" /\ PreReady) =>
        /\ Count(last.eff, "sleep") = 1
        /\ last.eff[1] = "sleep"
        /\ \A i \in 1..Len(last.eff) : last.eff[i] = "query" => i > 1

\* C20 witness: a Ready next that found nothing new, after its sleep and its query.
C20_Witness ==
    /\ kind \in SuiKinds
    /\ last.op = "next"
    /\ Ready(last.pre)
    /\ last.res = OkNone
    /\ last.eff = <<"sleep", "query">>
    /\ delivered # {}

\* C21: a batch returned by next of the event or object source holds at least one
\* record, and "no data" comes with no record.
C21_BatchNeverEmpty ==
    (kind \in {"event", "object"} /\ last.op = "next") =>
        /\ last.res = OkSome => Len(last.out) >= 1
        /\ last.res = OkNone => last.out = <<>>

\* C21 witness: the object source drops one element of a page and delivers the other.
C21_Witness ==
    /\ kind = "object"
    /\ FetchedPage
    /\ Len(last.resp.data) = 2
    /\ last.res = OkSome
    /\ Len(last.out) = 1

\* C22: a failed init, a next on a source that is not Ready and a failed remote call
\* are reported with three different kinds of error: the error of the last call is
\* of another kind than the error of each of the other two situations.
C22_DistinctErrorKinds ==
    (kind \in SuiKinds /\ last.res.tag = "Err") =>
        LET connection == ErrorVariant(InitFailed(Self).res)
            protocol == ErrorVariant(NotInitialized(Self, SourceName).res)
            remote == ErrorVariant(QueryFailed(Self, "events").res)
        IN  /\ last.op = "init" =>
                ErrorVariant(last.res) \notin {protocol, remote}
            /\ (last.op = "next" /\ ~Ready(last.pre)) =>
                ErrorVariant(last.res) \notin {connection, remote}
            /\ RemoteQueryFailed =>
                ErrorVariant(last.res) \notin {connection, protocol}

\* The smaller of two numbers.
Min(a, b) == IF a < b THEN a ELSE b

\* C23: DemoSource delivers exactly DemoLimit (10) records: the n-th next call since
\* construction returns the record numbered n - 1 for n = 1..10 and None from the 11th
\* on; no other call moves the counter.
C23_DemoDeliversTen ==
    kind = "demo" =>
        /\ delivered = 0..(Min(counter, DemoLimit) - 1)
        /\ last.op # "next" => counter = last.pre.counter
        /\ last.op = "next" =>
              /\ counter = last.pre.counter + 1
              /\ IF counter <= DemoLimit
                 THEN /\ last.res = OkSome
                      /\ last.out = << [id |-> counter - 1, timestamp |-> counter - 1] >>
                 ELSE last.res = OkNone /\ last.out = <<>>

\* C23 witness: the 11th next call of an initialized source returns None after ten
\* records.
C23_Witness ==
    /\ kind = "demo"
    /\ last.op = "next"
    /\ last.pre.initialized
    /\ counter = DemoLimit + 1
    /\ last.res = OkNone
    /\ Cardinality(delivered) = DemoLimit

\* C24: once the checkpoint source has fetched a checkpoint of N records, its k-th
\* successful next delivers the k-th record of the checkpoint for k = 1..N, the next
\* call returns "no data", and no call after the fetch issues a remote call.
C24_CheckpointReplay ==
    (kind = "checkpoint" /\ last.op = "next" /\ Ready(last.pre) /\ queue # None) =>
        LET q == queue[1]
            i == last.pre.queue_index
        IN  /\ queue_index <= Len(q)
            /\ last.pre.queue # None =>
                  (queue = last.pre.queue /\ Count(last.eff, "query") = 0)
            /\ last.pre.queue = None => (i = 0 /\ Count(last.eff, "query") = 1)
            /\ IF i < Len(q)
               THEN /\ last.res = OkSome
                    /\ last.out = << q[i + 1] >>
                    /\ queue_index = i + 1
               ELSE /\ last.res = OkNone
                    /\ last.out = <<>>
                    /\ queue_index = i

\* C24 witness: the third next on a checkpoint of two records returns "no data"
\* without a remote call.
C24_Witness ==
    /\ kind = "checkpoint"
    /\ last.op = "next"
    /\ Ready(last.pre)
    /\ last.pre.queue # None
    /\ Len(queue[1]) = 2
    /\ last.pre.queue_index = 2
    /\ last.res = OkNone
    /\ last.eff = <<"sleep">>

\* C25: SuiEventSource compares the stored identifier with the identifier of the
\* first element of the fetched (descending) page and stores that identifier when it
\* delivers.
C25_EventLatestIsFirst ==
    (kind = "event" /\ FetchedPage /\ AllTimestamped) =>
        LET id == EventIdString(last.resp.data[1])
        IN  IF last.pre.last_processed_event_id = Some(id)
            THEN last.res = OkNone /\ last_processed_event_id = Some(id)
            ELSE last.res = OkSome /\ last_processed_event_id = Some(id)

\* C26: SuiTransactionSource delivers the declared latest element of the page, the
\* first when descending_order is true and the last when it is false, and stores its
\* digest.
C26_TransactionLatestByOrder ==
    (kind = "transaction" /\ FetchedPage /\ last.res = OkSome) =>
        LET latest == DeclaredLatest(last.resp.data, descending_order)
        IN  /\ last.out = << TransactionToEvent(latest) >>
            /\ last_processed_digest = Some(latest.digest)

\* C27: after the event source has delivered a page of one event, a poll that fetches
\* any other event (another transaction, or another event of the same transaction)
\* delivers it.
C27_DistinctEventsDiffer ==
    (kind = "event" /\ FetchedPage /\ last.res = OkSome /\ Len(last.resp.data) = 1) =>
        \A e \in RawEvents :
            ( /\ e.timestamp_ms # None
              /\ [tx |-> e.tx, seq |-> e.seq] # Identity("event", last.out[1]) ) =>
                EventNextStep(Self, [ok |-> TRUE, data |-> << e >>]).res = OkSome

\* C28: in SuiTransactionSource no call lowers the stored checkpoint number or takes it
\* from a known value back to absent.
C28_CheckpointMonotone ==
    (kind = "transaction" /\ last.pre.last_processed_checkpoint # None) =>
        /\ last_processed_checkpoint # None
        /\ last_processed_checkpoint[1] >= last.pre.last_processed_checkpoint[1]

\* C29: a fetched page of transactions never makes next fail, and the record delivered
\* is the mapping of a fetched transaction: timestamp 0 when the timestamp is absent,
\* sender "unknown" when the block has no body, never an empty sender, recipient and
\* amount absent.
C29_TransactionMappingTotal ==
    (kind = "transaction" /\ FetchedPage) =>
        /\ last.res \in {OkSome, OkNone}
        /\ last.res = OkSome =>
              /\ Len(last.out) = 1
              /\ \E i \in 1..Len(last.resp.data) :
                    LET t == last.resp.data[i]
                        e == last.out[1]
                    IN  /\ e.transaction_digest = t.digest
                        /\ e.timestamp = (IF t.timestamp_ms = None THEN 0 ELSE t.timestamp_ms[1])
                        /\ t.transaction = None => e.sender = "unknown"
                        /\ t.transaction # None => e.sender = t.transaction[1].sender
                        /\ e.sender # ""
                        /\ e.recipient = None
                        /\ e.amount = None

\* C29 witness: a transaction without timestamp is delivered with timestamp 0.
C29_Witness ==
    /\ kind = "transaction"
    /\ FetchedPage
    /\ last.res = OkSome
    /\ TransactionLatest(last.resp.data).timestamp_ms = None
    /\ last.out[1].timestamp = 0
    /\ last.out[1].recipient = None

\* C30: every object record delivered by SuiObjectSource has the configured target
\* address as owner, whatever owner the remote reports, and a non-empty type, which
\* is "Unknown" when the remote gives none.
C30_OwnerAndType ==
    (kind = "object" /\ last.op = "next" /\ last.res = OkSome) =>
        \A n \in 1..Len(last.out) :
            LET r == last.out[n]
            IN  /\ r.owner = target_address
                /\ r.object_type # ""
                /\ \E i \in 1..Len(last.resp.data) :
                      LET o == last.resp.data[i]
                      IN  /\ o.data /\ o.id = r.id /\ o.version = r.version
                          /\ r.object_type = (IF o.type_ = None THEN "Unknown" ELSE o.type_[1])

\* C30 witness: an object without type that the remote reports under another owner is
\* delivered.
C30_Witness ==
    /\ kind = "object"
    /\ FetchedPage
    /\ last.res = OkSome
    /\ \E n \in 1..Len(last.out), i \in 1..Len(last.resp.data) :
          /\ last.resp.data[i].id = last.out[n].id
          /\ last.resp.data[i].data
          /\ last.resp.data[i].type_ = None
          /\ last.resp.data[i].owner # target_address
          /\ last.out[n].object_type = "Unknown"
          /\ last.out[n].owner = target_address

\* C31: in every reachable state of the three Sui sources the initialized flag is
\* set exactly when a client is held.
C31_FlagIffClient ==
    kind \in SuiKinds =>
        /\ initialized <=> client
        /\ last.pre.initialized <=> last.pre.client

\* C31 witness: an init whose client build fails, on a source that was Ready before
\* and was closed.
C31_Witness ==
    /\ kind \in SuiKinds
    /\ last.op = "init"
    /\ ~last.build_ok
    /\ ~last.pre.initialized
    /\ delivered # {}
    /\ ~initialized
    /\ ~client

\* The pages of one record that a field record s of the source has already seen: the
\* record whose identifier, or whose key and version, is stored.
SeenPages(s) ==
    IF kind = "event"
    THEN { << e >> : e \in { x \in RawEvents :
                               s.last_processed_event_id = Some(EventIdString(x)) } }
    ELSE IF kind = "transaction"
    THEN { << x >> : x \in { y \in RawTransactions :
                               s.last_processed_digest = Some(y.digest) } }
    ELSE { << RawObject(k, s.last_processed_versions[k]) >> :
               k \in DOMAIN s.last_processed_versions }

\* C32: close and init leave the watermark as it was, and on a source initialized
\* again after a close a page seen before the close yields "no data".
C32_CloseInitKeepWatermark ==
    (kind \in SuiKinds /\ last.op \in {"init", "close"}) =>
        /\ Watermark(Self) = Watermark(last.pre)
        /\ (last.op = "init" /\ Ready(Self)) =>
              \A page \in SeenPages(last.pre) :
                  SuiNextStep(kind, Self, ValidAddress, [ok |-> TRUE, data |-> page]).res
                      = OkNone

\* C32 witness: a source that holds a watermark is initialized again after a close.
C32_Witness ==
    /\ kind \in SuiKinds
    /\ last.op = "init"
    /\ ~last.pre.initialized
    /\ Ready(Self)
    /\ delivered # {}
    /\ SeenPages(Self) # {}

\* C33: no call changes the query parameters set at construction: the pagination
\* cursor, the order and the target address are the same after every step.
C33_ParametersFixed ==
    [][ /\ cursor' = cursor
        /\ descending_order' = descending_order
        /\ target_address' = target_address
        /\ kind' = kind ]_vars

\* C33 witness: a poll has delivered a page and the cursor is the one set at
\* construction.
C33_Witness ==
    /\ kind \in SuiKinds
    /\ FetchedPage
    /\ last.res = OkSome
    /\ delivered # {}
    /\ cursor = None

\* C34: a SuiObjectSource whose target address does not parse is initialized like any
\* other, and each of its Ready next calls sleeps, issues no remote query, returns an
\* error and changes no field; its version map stays empty.
C34_BadAddress ==
    (kind = "object" /\ target_address = InvalidAddress) =>
        /\ last_processed_versions = << >>
        /\ (last.op = "init" /\ last.build_ok /\ ~last.pre.initialized) =>
              (last.res = OkUnit /\ Ready(Self))
        /\ (last.op = "next" /\ Ready(last.pre)) =>
              /\ last.res.tag = "Err"
              /\ last.eff = <<"sleep">>
              /\ Self = last.pre
              /\ Ready(Self)

\* C34 witness: a Ready next of a source with an address that does not parse.
C34_Witness ==
    /\ kind = "object"
    /\ target_address = InvalidAddress
    /\ last.op = "next"
    /\ Ready(last.pre)
    /\ last.res.tag = "Err"
    /\ Count(last.eff, "query") = 0

\* An element of a fetched object page passes the version filter of the last call.
PassesFilter(o) ==
    \/ StoredVersion(last.pre, o.id) = None
    \/ StoredVersion(last.pre, o.id)[1] < o.version

\* C35: the object source delivers the fetched elements that pass the version filter
\* in their fetched order, and the event source delivers every fetched event in its
\* fetched order.
C35_OrderPreserved ==
    /\ (kind = "object" /\ FetchedPage /\ last.res = OkSome) =>
          LET kept == SelectSeq(last.resp.data, PassesFilter)
          IN  /\ Len(last.out) = Len(kept)
              /\ \A n \in 1..Len(kept) :
                    Identity("object", last.out[n]) = [id |-> kept[n].id, version |-> kept[n].version]
    /\ (kind = "event" /\ FetchedPage /\ last.res = OkSome) =>
          /\ Len(last.out) = Len(last.resp.data)
          /\ \A n \in 1..Len(last.out) :
                Identity("event", last.out[n])
                    = [tx |-> last.resp.data[n].tx, seq |-> last.resp.data[n].seq]

\* C35 witness: the object source delivers two objects fetched in the order o2, o1.
C35_Witness ==
    /\ kind = "object"
    /\ FetchedPage
    /\ last.res = OkSome
    /\ Len(last.out) >= 2
    /\ last.resp.data[1].id = "o2"
    /\ last.out[1].id = "o2"
    /\ last.out[2].id = "o1"

\* C36: DemoSource never lowers its counter, next returns None only once the counter
\* has passed the limit, and from then on every next returns None, also after a
\* close and an init.
C36_ExhaustionPermanent ==
    kind = "demo" =>
        /\ counter >= last.pre.counter
        /\ (last.op = "next" /\ last.res = OkNone) => counter > DemoLimit
        /\ (last.op = "next" /\ last.pre.counter >= DemoLimit) => last.res = OkNone
        /\ counter >= DemoLimit => DemoNextStep(Self).res = OkNone

\* C36 witness: an exhausted source that was closed is initialized again.
C36_Witness ==
    /\ kind = "demo"
    /\ last.op = "init"
    /\ ~last.pre.initialized
    /\ initialized
    /\ counter > DemoLimit
    /\ DemoNextStep(Self).res = OkNone

====
